---- MODULE Spec2Model ----
(***************************************************************************)
(* A model of afptools: the structured-field codec (parser.py), the strict *)
(* scanner AFPParser.parse and the structure indexer (parser.py), the      *)
(* permissive scanners of the analyzer (analyzer.py), the page-range       *)
(* mini-language (utils.py) and the page extractor (operations.py).        *)
(*                                                                         *)
(* Bytes are the integers 0..255, byte strings are sequences of bytes with *)
(* Python's 0-based index i at the TLA+ index i+1.  Text strings are       *)
(* sequences of one-character strings.                                     *)
(***************************************************************************)
EXTENDS Integers, Sequences, FiniteSets, TLC

VARIABLES
    pc,                 \* position of the running call
    f, wire, decoded,   \* codec: the field, its encoding, the decoding of that
    data,               \* the bytes of the input file
    offset,             \* scan loops: the cursor
    error_count,        \* AFPParser.parse: malformed-length errors so far
    field_count,        \* scan loops: the local field_count
    page_count,         \* analyzer scans: the local page_count
    iterations,         \* scan loops: loop bodies entered so far (history)
    start_offset,       \* try_parse_from_offset: the offset it was given
    fields,             \* AFPParser.fields
    resource_end_index, \* AFPParser.resource_end_index
    page_indices,       \* AFPParser.page_indices
    parse_calls,        \* completed calls of AFPParser.parse on this object
    result,             \* analyzer scans: the result dictionary
    range_str,          \* parse_page_range: its range_str argument
    total_pages,        \* parse_page_range: its total_pages argument
    page_numbers,       \* what parse_page_range returned / extract_pages is given
    output_fields,      \* extract_pages: the assembled field list
    written,            \* write_afp_file: the bytes of the output file
    error               \* the message of the ValueError that ended a call, or ""

codecVars  == <<f, wire, decoded>>
scanVars   == <<offset, error_count, field_count, page_count, iterations,
                start_offset>>
parserVars == <<fields, resource_end_index, page_indices, parse_calls>>
rangeVars  == <<range_str, total_pages>>
outVars    == <<output_fields, written>>
vars == <<pc, f, wire, decoded, data, offset, error_count, field_count,
          page_count, iterations, start_offset, fields, resource_end_index, page_indices, parse_calls,
          result, range_str, total_pages, page_numbers, output_fields, written,
          error>>

(***************************************************************************)
(* Bounds of the model.                                                    *)
(***************************************************************************)
MaxPayload == 2     \* codec: longest payload enumerated byte by byte
MaxBuf == 6         \* scanners: longest buffer enumerated byte by byte
MaxStr == 4         \* page ranges: longest string enumerated character by character
MaxTotalPages == 3  \* page ranges: largest total_pages enumerated
MaxFields == 4      \* extraction: longest field sequence enumerated type by type
MaxRequest == 2     \* extraction: longest page_numbers list enumerated
MaxPages == 2       \* pipeline: most pages of a well-formed document
MaxPipeStr == 3     \* pipeline: longest page-range string enumerated
MaxPipeFields == 3  \* pipeline: longest arbitrary field sequence enumerated
MaxParseCalls == 2  \* parser: most calls of parse on one parser object
MaxDecodeBuf == 6   \* codec: longest buffer decoded, enumerated byte by byte
MaxPieces == 3      \* analyzer: most pieces a buffer is put together from

(***************************************************************************)
(* Type codes (parser.py, class AFPStructuredField).                       *)
(***************************************************************************)
BDT == <<211, 168, 168>>   \* d3 a8 a8
EDT == <<211, 169, 168>>   \* d3 a9 a8
BPG == <<211, 168, 175>>   \* d3 a8 af
EPG == <<211, 169, 175>>   \* d3 a9 af
BRG == <<211, 168, 198>>   \* d3 a8 c6
ERG == <<211, 169, 198>>   \* d3 a9 c6

RECURSIVE Concat(_)
\* b''.join(parts)
Concat(parts) ==
    IF parts = <<>> THEN <<>> ELSE Head(parts) \o Concat(Tail(parts))

\* data[lo:hi] of Python, for 0 <= lo
Slice(s, lo, hi) ==
    LET h == IF hi > Len(s) THEN Len(s) ELSE hi
    IN  IF h <= lo THEN <<>> ELSE SubSeq(s, lo + 1, h)

(***************************************************************************)
(* The field codec.                                                        *)
(***************************************************************************)
\* struct.pack('>H', n), 0 <= n <= 65535
pack_u16_be(n) == <<n \div 256, n % 256>>

\* a plausible slip: '<H', little-endian
pack_u16_le(n) == <<n % 256, n \div 256>>

\* struct.unpack('>H', b)[0]
unpack_u16_be(b) == b[1] * 256 + b[2]

\* AFPStructuredField.__init__
AFPStructuredField(type_code, field_data) ==
    [type_code |-> type_code, data |-> field_data, length |-> Len(field_data) + 5]

\* AFPStructuredField.from_bytes: <<>> is None, <<fld>> is the field
from_bytes(d) ==
    IF Len(d) < 5 THEN <<>>
    ELSE LET length == unpack_u16_be(Slice(d, 0, 2))
         IN  IF Len(d) < length THEN <<>>
             ELSE <<AFPStructuredField(Slice(d, 2, 5), Slice(d, 5, length))>>

\* the length prefix to_bytes writes
length_bytes(total_length) == pack_u16_be(total_length)

\* AFPStructuredField.to_bytes
to_bytes(fld) ==
    length_bytes(5 + Len(fld.data)) \o fld.type_code \o fld.data

(***************************************************************************)
(* Codec round trip: encode a field, decode the encoding.                  *)
(***************************************************************************)
PayloadBytes == {0, 5, 255}
TypeCodes == {BDT, EDT, BPG, EPG, BRG, ERG, <<0, 0, 0>>, <<255, 0, 5>>}

RECURSIVE SeqsUpTo(_, _)
\* every sequence over S of length 0..n
SeqsUpTo(S, n) ==
    IF n = 0 THEN {<<>>}
    ELSE LET shorter == SeqsUpTo(S, n - 1)
         IN  shorter \cup {Append(s, x) : s \in shorter, x \in S}

\* payload lengths whose encoded length needs the high byte of the prefix:
\* 256, 257 and the largest admitted, 32767
LongPayloadLens == {251, 252, 32762}
LongPayloads == {[i \in 1..n |-> i % 256] : n \in LongPayloadLens}

CodecFields ==
    {AFPStructuredField(t, p) : t \in TypeCodes, p \in SeqsUpTo(PayloadBytes, MaxPayload)}
    \cup {AFPStructuredField(BPG, p) : p \in LongPayloads}

\* the result dictionary every analyzer function starts from
EmptyResult ==
    [is_afp |-> FALSE, field_count |-> 0, page_count |-> 0, fields |-> <<>>,
     errors |-> <<>>, warnings |-> <<>>]

\* nothing has run yet
Fresh ==
    /\ wire = <<>> /\ decoded = <<>>
    /\ offset = 0 /\ error_count = 0 /\ field_count = 0 /\ page_count = 0
    /\ iterations = 0 /\ start_offset = 0
    /\ fields = <<>> /\ resource_end_index = 0 /\ page_indices = <<>>
    /\ parse_calls = 0
    /\ result = EmptyResult
    /\ page_numbers = <<>>
    /\ output_fields = <<>> /\ written = <<>>
    /\ error = ""

InitCodec ==
    /\ pc = "codec"
    /\ f \in CodecFields
    /\ data = <<>>
    /\ range_str = <<>> /\ total_pages = 0
    /\ Fresh

Encode ==
    /\ pc = "codec"
    /\ wire' = to_bytes(f)
    /\ pc' = "encoded"
    /\ UNCHANGED <<f, decoded, data, scanVars, parserVars, result, rangeVars,
                   page_numbers, outVars, error>>

Decode ==
    /\ pc = "encoded"
    /\ decoded' = from_bytes(wire)
    /\ pc' = "decoded"
    /\ UNCHANGED <<f, wire, data, scanVars, parserVars, result, rangeVars,
                   page_numbers, outVars, error>>

NextCodec == Encode \/ Decode

SpecCodec == InitCodec /\ [][NextCodec]_vars

\* C1: decoding the encoding of a field with a 3-byte type code and a payload
\* of at most 32762 bytes gives back a field with the same type code and the
\* same payload, whose length, the bytes consumed, is 5 + len(payload).
RoundTrip ==
    pc = "decoded" =>
        /\ Len(decoded) = 1
        /\ decoded[1].type_code = f.type_code
        /\ decoded[1].data = f.data
        /\ decoded[1].length = 5 + Len(f.data)
        /\ decoded[1].length = Len(wire)

\* a decoded field whose length prefix uses both of its bytes
RoundTripWitness ==
    /\ pc = "decoded"
    /\ Len(f.data) = 252
    /\ wire[1] = 1 /\ wire[2] = 1
    /\ Len(decoded) = 1 /\ decoded[1].data = f.data

(***************************************************************************)
(* from_bytes on any buffer of 5 bytes or more: every buffer of up to      *)
(* MaxDecodeBuf bytes over DecodeBytes, and three long buffers: one record *)
(* of the greatest length admitted, one of a length one above it, and the  *)
(* latter cut short by a byte.                                             *)
(***************************************************************************)
DecodeBytes == {0, 4, 5, 128}

LongBuffers ==
    {pack_u16_be(32767) \o [i \in 1..32765 |-> i % 256],
     pack_u16_be(32768) \o [i \in 1..32766 |-> i % 256],
     pack_u16_be(32768) \o [i \in 1..32765 |-> i % 256]}

DecodeBuffers ==
    {b \in SeqsUpTo(DecodeBytes, MaxDecodeBuf) : Len(b) >= 5} \cup LongBuffers

InitDecode ==
    /\ pc = "encoded"
    /\ f = <<>>
    /\ data = <<>>
    /\ range_str = <<>> /\ total_pages = 0
    /\ offset = 0 /\ error_count = 0 /\ field_count = 0 /\ page_count = 0
    /\ iterations = 0 /\ start_offset = 0
    /\ fields = <<>> /\ resource_end_index = 0 /\ page_indices = <<>>
    /\ parse_calls = 0
    /\ result = EmptyResult
    /\ page_numbers = <<>>
    /\ output_fields = <<>> /\ written = <<>>
    /\ error = ""
    /\ decoded = <<>>
    /\ wire \in DecodeBuffers

NextDecode == Decode

SpecDecode == InitDecode /\ [][NextDecode]_vars

\* the length the first two bytes of the buffer encode
EncodedLength == unpack_u16_be(Slice(wire, 0, 2))

\* C12 as stated: from_bytes of a buffer of 5 bytes or more returns no field
\* when the encoded length L is < 5 or > 32767 or the buffer is shorter than
\* L, and otherwise the field of type code bytes [2,5) and payload bytes [5,L)
DecodeFailureRule ==
    (pc = "decoded" /\ Len(wire) >= 5) =>
        IF EncodedLength < 5 \/ EncodedLength > 32767 \/ Len(wire) < EncodedLength
        THEN decoded = <<>>
        ELSE /\ Len(decoded) = 1
             /\ decoded[1].type_code = Slice(wire, 2, 5)
             /\ decoded[1].data = Slice(wire, 5, EncodedLength)

(***************************************************************************)
(* The scan loops.  Each loop body is an operator from the loop's state at *)
(* the top of the body to its state at the bottom, with ctl saying how the *)
(* body left: "continue" (back to the loop test), "break" or "raise".      *)
(***************************************************************************)
\* a plausible slip: the budget test is >= instead of >
MaxErrorsInclusive == 10 - 1

max_errors == 10
MaxFieldLength == 32767
MinFieldLength == 5
MaxSampleFields == 100

\* the sanity check on a field length, the same in the three loops
InvalidLength(field_length) ==
    field_length < MinFieldLength \/ field_length > MaxFieldLength

\* plausible slips: the cursor stays, or the two length bytes are skipped
SkipByteStuck(off) == off

SkipLengthBytes(off) == off + 2

\* "Try to recover by skipping this byte"

SkipByte(off) == off + 1

\* the body of the while loop of AFPParser.parse.  The ValueError of the
\* error budget is raised inside the inner try, so "except Exception" catches
\* it, counts one more error and, the budget being used up, raises in turn.
\* Nothing else in the try block raises.
ParseBody(d, off, ec, fc, flds) ==
    LET st == [ctl |-> "continue", offset |-> off, error_count |-> ec,
               field_count |-> fc, fields |-> flds]
    IN  IF off + 2 > Len(d) THEN [st EXCEPT !.ctl = "break"]
        ELSE LET field_length == unpack_u16_be(Slice(d, off, off + 2))
             IN  IF InvalidLength(field_length)
                 THEN IF ec + 1 > max_errors
                      THEN IF ec + 2 > max_errors
                           THEN [st EXCEPT !.ctl = "raise", !.error_count = ec + 2]
                           ELSE [st EXCEPT !.error_count = ec + 2,
                                           !.offset = SkipByte(off)]
                      ELSE [st EXCEPT !.error_count = ec + 1,
                                      !.offset = SkipByte(off)]
                 ELSE IF off + field_length > Len(d)
                 THEN [st EXCEPT !.ctl = "break"]
                 ELSE LET field == from_bytes(Slice(d, off, off + field_length))
                      IN  [st EXCEPT
                             !.fields = IF field # <<>> THEN Append(flds, field[1])
                                        ELSE flds,
                             !.field_count = IF field # <<>> THEN fc + 1 ELSE fc,
                             !.offset = off + field_length]

\* the indices (0-based) of the BPG fields, in order
RECURSIVE BPGIndicesFrom(_, _)
BPGIndicesFrom(flds, i) ==
    IF i >= Len(flds) THEN <<>>
    ELSE IF flds[i + 1].type_code = BPG
         THEN <<i>> \o BPGIndicesFrom(flds, i + 1)
         ELSE BPGIndicesFrom(flds, i + 1)

\* a plausible slip: the page list is the begin-document fields
RECURSIVE BDTIndicesFrom(_, _)
BDTIndicesFrom(flds, i) ==
    IF i >= Len(flds) THEN <<>>
    ELSE IF flds[i + 1].type_code = BDT
         THEN <<i>> \o BDTIndicesFrom(flds, i + 1)
         ELSE BDTIndicesFrom(flds, i + 1)

identify_pages_bdt(flds) == BDTIndicesFrom(flds, 0)

\* AFPParser.identify_pages
identify_pages(flds) == BPGIndicesFrom(flds, 0)

\* AFPParser.identify_resources
identify_resources(flds) ==
    IF \E i \in 0..(Len(flds) - 1) : flds[i + 1].type_code = BPG
    THEN CHOOSE i \in 0..(Len(flds) - 1) :
            /\ flds[i + 1].type_code = BPG
            /\ \A j \in 0..(i - 1) : flds[j + 1].type_code # BPG
    ELSE Len(flds)

(***************************************************************************)
(* AFPParser.parse, one loop iteration at a time.  A parser object may be  *)
(* asked to parse again: __init__ alone empties fields.                    *)
(***************************************************************************)
\* both ValueErrors of the scan are re-raised with this prefix
NotValidAFP == "This does not appear to be a valid AFP file"

\* the entry of parse: read the file, reset the locals
ParseEnter ==
    /\ pc' = "parse_loop"
    /\ offset' = 0 /\ field_count' = 0 /\ error_count' = 0
    /\ iterations' = 0 /\ start_offset' = 0
    /\ error' = ""
    /\ UNCHANGED <<codecVars, data, page_count, parserVars, result, rangeVars,
                   page_numbers, outVars>>

\* the first call of parse on a new parser object
ParseStart ==
    /\ pc = "ready"
    /\ ParseEnter

\* parse is called again on a parser object that has parsed
ParseAgain ==
    /\ pc = "parsed"
    /\ parse_calls < MaxParseCalls
    /\ ParseEnter

\* a loop body that goes back to the loop test
ParseIterate ==
    /\ pc = "parse_loop"
    /\ offset < Len(data)
    /\ LET b == ParseBody(data, offset, error_count, field_count, fields)
       IN  /\ b.ctl = "continue"
           /\ offset' = b.offset
           /\ error_count' = b.error_count
           /\ field_count' = b.field_count
           /\ fields' = b.fields
    /\ iterations' = iterations + 1
    /\ UNCHANGED <<pc, codecVars, data, page_count, start_offset,
                   resource_end_index, page_indices, parse_calls, result,
                   rangeVars, page_numbers, outVars, error>>

\* "Too many invalid field lengths": the ValueError leaves parse
ParseAbort ==
    /\ pc = "parse_loop"
    /\ offset < Len(data)
    /\ LET b == ParseBody(data, offset, error_count, field_count, fields)
       IN  /\ b.ctl = "raise"
           /\ error_count' = b.error_count
    /\ iterations' = iterations + 1
    /\ pc' = "parse_failed"
    /\ error' = NotValidAFP
    /\ UNCHANGED <<codecVars, data, offset, field_count, page_count,
                   start_offset, parserVars, result, rangeVars, page_numbers,
                   outVars>>

\* the loop is left by its test or by a break
ParseLoopLeft ==
    \/ offset >= Len(data)
    \/ ParseBody(data, offset, error_count, field_count, fields).ctl = "break"

\* the loop ends with no field: "No valid AFP structured fields found"
ParseEndEmpty ==
    /\ pc = "parse_loop"
    /\ ParseLoopLeft
    /\ fields = <<>>
    /\ iterations' = IF offset < Len(data) THEN iterations + 1 ELSE iterations
    /\ pc' = "parse_failed"
    /\ error' = NotValidAFP
    /\ UNCHANGED <<codecVars, data, offset, error_count, field_count,
                   page_count, start_offset, parserVars, result, rangeVars,
                   page_numbers, outVars>>

\* the loop ends with fields: index them and return
ParseEnd ==
    /\ pc = "parse_loop"
    /\ ParseLoopLeft
    /\ fields # <<>>
    /\ iterations' = IF offset < Len(data) THEN iterations + 1 ELSE iterations
    /\ resource_end_index' = identify_resources(fields)
    /\ page_indices' = identify_pages(fields)
    /\ parse_calls' = parse_calls + 1
    /\ pc' = "parsed"
    /\ UNCHANGED <<codecVars, data, offset, error_count, field_count,
                   page_count, start_offset, fields, result, rangeVars,
                   page_numbers, outVars, error>>

(***************************************************************************)
(* The analyzer (analyzer.py).                                             *)
(***************************************************************************)
HexDigits ==
    <<"0", "1", "2", "3", "4", "5", "6", "7", "8", "9", "a", "b", "c", "d", "e", "f">>

\* bytes.hex(): two lower-case digits a byte
hex(b) ==
    [i \in 1..(2 * Len(b)) |->
        IF i % 2 = 1 THEN HexDigits[(b[(i + 1) \div 2] \div 16) + 1]
        ELSE HexDigits[(b[i \div 2] % 16) + 1]]

\* the table AFP_TYPES, as its (key, value) pairs
AFP_TYPES ==
    {<<<<"d", "3", "a", "8", "a", "8">>, "BDT (Begin Document)">>,
     <<<<"d", "3", "a", "9", "a", "8">>, "EDT (End Document)">>,
     <<<<"d", "3", "a", "8", "a", "f">>, "BPG (Begin Page)">>,
     <<<<"d", "3", "a", "9", "a", "f">>, "EPG (End Page)">>,
     <<<<"d", "3", "a", "8", "c", "6">>, "BRG (Begin Resource Group)">>,
     <<<<"d", "3", "a", "9", "c", "6">>, "ERG (End Resource Group)">>,
     <<<<"d", "3", "a", "8", "c", "9">>, "BOG (Begin Object)">>,
     <<<<"d", "3", "a", "9", "c", "9">>, "EOG (End Object)">>,
     <<<<"d", "3", "a", "8", "a", "7">>, "BMM (Begin Mixed Mode)">>,
     <<<<"d", "3", "a", "9", "a", "7">>, "EMM (End Mixed Mode)">>,
     <<<<"d", "3", "a", "8", "f", "b">>, "BPT (Begin Presentation Text)">>,
     <<<<"d", "3", "a", "9", "f", "b">>, "EPT (End Presentation Text)">>,
     <<<<"d", "3", "a", "8", "d", "f">>, "BDI (Begin Document Index)">>,
     <<<<"d", "3", "a", "9", "d", "f">>, "EDI (End Document Index)">>}

AFP_TYPE_KEYS == {kv[1] : kv \in AFP_TYPES}

\* type_hex in AFP_TYPES
IsKnownType(type_hex) == type_hex \in AFP_TYPE_KEYS

\* AFP_TYPES.get(type_hex, "Unknown")
TypeName(type_hex) ==
    IF IsKnownType(type_hex)
    THEN (CHOOSE kv \in AFP_TYPES : kv[1] = type_hex)[2]
    ELSE "Unknown"

\* the f-string of a warning, as the values it formats
Warning(msg, field_length, off) ==
    [msg |-> msg, length |-> field_length, offset |-> off]

\* the body of the while loop of try_parse_standard_afp; nothing in its try
\* block raises, so its except branch is never taken
StdBody(d, off, fc, pgc, res) ==
    LET st == [ctl |-> "continue", offset |-> off, field_count |-> fc,
               page_count |-> pgc, result |-> res]
    IN  IF off + 5 > Len(d) THEN [st EXCEPT !.ctl = "break"]
        ELSE LET field_length == unpack_u16_be(Slice(d, off, off + 2))
             IN  IF InvalidLength(field_length)
                 THEN [st EXCEPT
                         !.result.warnings =
                             Append(@, Warning("Invalid field length", field_length, off)),
                         !.offset = SkipByte(off)]
                 ELSE IF off + field_length > Len(d)
                 THEN [st EXCEPT
                         !.result.warnings =
                             Append(@, Warning("Incomplete field", field_length, off)),
                         !.ctl = "break"]
                 ELSE LET type_hex == hex(Slice(d, off + 2, off + 5))
                          is_bpg == type_hex = hex(BPG)
                          base == [offset |-> off, length |-> field_length,
                                   type_code |-> type_hex,
                                   type_name |-> TypeName(type_hex)]
                          field_info ==
                              IF is_bpg
                              THEN [offset |-> off, length |-> field_length,
                                    type_code |-> type_hex,
                                    type_name |-> TypeName(type_hex),
                                    is_page_start |-> TRUE]
                              ELSE base
                      IN  [st EXCEPT
                             !.page_count = IF is_bpg THEN pgc + 1 ELSE pgc,
                             !.result.fields =
                                 IF Len(@) < MaxSampleFields
                                 THEN Append(@, field_info) ELSE @,
                             !.offset = off + field_length,
                             !.field_count = fc + 1,
                             !.result.is_afp =
                                 IF IsKnownType(type_hex) THEN TRUE ELSE @]

\* the body of the while loop of try_parse_from_offset
OffBody(d, off, fc, pgc, res) ==
    LET st == [ctl |-> "continue", offset |-> off, field_count |-> fc,
               page_count |-> pgc, result |-> res]
    IN  IF off + 5 > Len(d) THEN [st EXCEPT !.ctl = "break"]
        ELSE LET field_length == unpack_u16_be(Slice(d, off, off + 2))
             IN  IF InvalidLength(field_length)
                 THEN [st EXCEPT !.offset = SkipByte(off)]
                 ELSE IF off + field_length > Len(d)
                 THEN [st EXCEPT !.ctl = "break"]
                 ELSE LET type_hex == hex(Slice(d, off + 2, off + 5))
                          known == IsKnownType(type_hex)
                      IN  [st EXCEPT
                             !.field_count = IF known THEN fc + 1 ELSE fc,
                             !.page_count =
                                 IF known /\ type_hex = hex(BPG) THEN pgc + 1
                                 ELSE pgc,
                             !.result.is_afp = IF known THEN TRUE ELSE @,
                             !.offset = off + field_length]

\* try_parse_standard_afp is called on the file's bytes
StdStart ==
    /\ pc = "ready"
    /\ pc' = "std_loop"
    /\ result' = EmptyResult
    /\ offset' = 0 /\ field_count' = 0 /\ page_count' = 0
    /\ iterations' = 0 /\ start_offset' = 0
    /\ UNCHANGED <<codecVars, data, error_count, parserVars, rangeVars,
                   page_numbers, outVars, error>>

StdIterate ==
    /\ pc = "std_loop"
    /\ offset < Len(data)
    /\ LET b == StdBody(data, offset, field_count, page_count, result)
       IN  /\ b.ctl = "continue"
           /\ offset' = b.offset
           /\ field_count' = b.field_count
           /\ page_count' = b.page_count
           /\ result' = b.result
    /\ iterations' = iterations + 1
    /\ UNCHANGED <<pc, codecVars, data, error_count, start_offset, parserVars,
                   rangeVars, page_numbers, outVars, error>>

\* the loop is left by its test or by a break; the counts go into the result
StdEnd ==
    /\ pc = "std_loop"
    /\ LET b == StdBody(data, offset, field_count, page_count, result)
           res == IF offset < Len(data) THEN b.result ELSE result
       IN  /\ offset >= Len(data) \/ b.ctl = "break"
           /\ result' = [res EXCEPT !.field_count = field_count,
                                    !.page_count = page_count]
    /\ iterations' = IF offset < Len(data) THEN iterations + 1 ELSE iterations
    /\ pc' = "std_done"
    /\ UNCHANGED <<codecVars, data, offset, error_count, field_count,
                   page_count, start_offset, parserVars, rangeVars,
                   page_numbers, outVars, error>>

\* try_parse_from_offset is called with a start offset inside the buffer
OffStart ==
    /\ pc = "ready"
    /\ \E s \in 0..Len(data) :
          /\ start_offset' = s
          /\ offset' = s
    /\ pc' = "off_loop"
    /\ result' = EmptyResult
    /\ field_count' = 0 /\ page_count' = 0
    /\ iterations' = 0
    /\ UNCHANGED <<codecVars, data, error_count, parserVars, rangeVars,
                   page_numbers, outVars, error>>

OffIterate ==
    /\ pc = "off_loop"
    /\ offset < Len(data)
    /\ LET b == OffBody(data, offset, field_count, page_count, result)
       IN  /\ b.ctl = "continue"
           /\ offset' = b.offset
           /\ field_count' = b.field_count
           /\ page_count' = b.page_count
           /\ result' = b.result
    /\ iterations' = iterations + 1
    /\ UNCHANGED <<pc, codecVars, data, error_count, start_offset, parserVars,
                   rangeVars, page_numbers, outVars, error>>

OffEnd ==
    /\ pc = "off_loop"
    /\ offset >= Len(data)
          \/ OffBody(data, offset, field_count, page_count, result).ctl = "break"
    /\ result' = [result EXCEPT !.field_count = field_count,
                                !.page_count = page_count]
    /\ iterations' = IF offset < Len(data) THEN iterations + 1 ELSE iterations
    /\ pc' = "off_done"
    /\ UNCHANGED <<codecVars, data, offset, error_count, field_count,
                   page_count, start_offset, parserVars, rangeVars,
                   page_numbers, outVars, error>>

(***************************************************************************)
(* The analyzer's scans as whole calls, the signature search and           *)
(* analyze_afp_file (analyzer.py).                                         *)
(***************************************************************************)
RECURSIVE StdRun(_, _, _, _, _)
\* the while loop of try_parse_standard_afp from the loop test on, and the
\* two assignments behind it
StdRun(d, off, fc, pgc, res) ==
    IF off >= Len(d)
    THEN [res EXCEPT !.field_count = fc, !.page_count = pgc]
    ELSE LET b == StdBody(d, off, fc, pgc, res)
         IN  IF b.ctl = "break"
             THEN [b.result EXCEPT !.field_count = fc, !.page_count = pgc]
             ELSE StdRun(d, b.offset, b.field_count, b.page_count, b.result)

\* try_parse_standard_afp(data)
try_parse_standard_afp(d) == StdRun(d, 0, 0, 0, EmptyResult)

RECURSIVE OffRun(_, _, _, _, _)
\* the while loop of try_parse_from_offset from the loop test on, and the
\* two assignments behind it
OffRun(d, off, fc, pgc, res) ==
    IF off >= Len(d)
    THEN [res EXCEPT !.field_count = fc, !.page_count = pgc]
    ELSE LET b == OffBody(d, off, fc, pgc, res)
         IN  IF b.ctl = "break"
             THEN [b.result EXCEPT !.field_count = fc, !.page_count = pgc]
             ELSE OffRun(d, b.offset, b.field_count, b.page_count, b.result)

\* try_parse_from_offset(data, start_offset)
try_parse_from_offset(d, start) == OffRun(d, start, 0, 0, EmptyResult)

\* data.find(sub, start): the lowest index >= start where sub begins, or -1
find(d, sub, start) ==
    IF \E i \in start..(Len(d) - Len(sub)) : Slice(d, i, i + Len(sub)) = sub
    THEN CHOOSE i \in start..(Len(d) - Len(sub)) :
            /\ Slice(d, i, i + Len(sub)) = sub
            /\ \A j \in start..(i - 1) : Slice(d, j, j + Len(sub)) # sub
    ELSE -1

RECURSIVE FindAllFrom(_, _, _, _)
\* the while loop of find_all
FindAllFrom(d, sub, start, positions) ==
    LET hit == find(d, sub, start)
    IN  IF hit = -1 THEN positions
        ELSE FindAllFrom(d, sub, hit + 1, Append(positions, hit))

\* find_all(data, sub)
find_all(d, sub) == FindAllFrom(d, sub, 0, <<>>)

\* the signatures try_parse_alternative_formats looks for, in its order
signatures ==
    <<<<<<90, 0>>, "MODCA">>, <<BDT, "BDT">>, <<BPG, "BPG">>>>

\* positions[:5]
MaxCandidates == 5

\* a plausible slip: a candidate that ties with the kept one replaces it
BetterOrEqual(sub_result, res) == sub_result.field_count >= res.field_count

\* sub_result["field_count"] > result["field_count"]
Better(sub_result, res) == sub_result.field_count > res.field_count

RECURSIVE TryPositions(_, _, _)
\* the inner for loop of try_parse_alternative_formats
TryPositions(d, positions, res) ==
    IF positions = <<>> THEN res
    ELSE LET sub_result == try_parse_from_offset(d, Head(positions))
         IN  TryPositions(d, Tail(positions),
                          IF Better(sub_result, res) THEN sub_result ELSE res)

RECURSIVE TrySignatures(_, _, _)
\* the outer for loop of try_parse_alternative_formats
TrySignatures(d, sigs, res) ==
    IF sigs = <<>> THEN res
    ELSE LET positions == find_all(d, Head(sigs)[1])
         IN  TrySignatures(d, Tail(sigs),
                           TryPositions(d, Slice(positions, 0, MaxCandidates), res))

\* try_parse_alternative_formats(data)
try_parse_alternative_formats(d) == TrySignatures(d, signatures, EmptyResult)

\* a plausible slip: the recovery runs whenever no recognized type was found
NeedsRecoveryNotAFP(res) == ~res.is_afp

\* not result["is_afp"] and result["field_count"] == 0
NeedsRecovery(res) == ~res.is_afp /\ res.field_count = 0

NonStandard == [msg |-> "Non-standard AFP format detected"]
NotRecognized == "Not a recognized AFP format"

\* the final determination of analyze_afp_file
FinalDetermination(res) ==
    IF res.field_count > 0
    THEN IF res.is_afp THEN res
         ELSE [res EXCEPT !.warnings = Append(@, NonStandard)]
    ELSE [res EXCEPT !.errors = Append(@, NotRecognized)]

\* analyze_afp_file: result.update(try_parse_standard_afp(data))
AnalyzePrimary ==
    /\ pc = "ready"
    /\ result' = try_parse_standard_afp(data)
    /\ pc' = "primary_done"
    /\ UNCHANGED <<codecVars, data, scanVars, parserVars, rangeVars,
                   page_numbers, outVars, error>>

\* analyze_afp_file: result.update(try_parse_alternative_formats(data))
AnalyzeRecover ==
    /\ pc = "primary_done"
    /\ NeedsRecovery(result)
    /\ result' = try_parse_alternative_formats(data)
    /\ pc' = "recovery_done"
    /\ UNCHANGED <<codecVars, data, scanVars, parserVars, rangeVars,
                   page_numbers, outVars, error>>

\* analyze_afp_file: the final determination, and the return
AnalyzeFinal ==
    /\ \/ pc = "primary_done" /\ ~NeedsRecovery(result)
       \/ pc = "recovery_done"
    /\ result' = FinalDetermination(result)
    /\ pc' = "analyzed"
    /\ UNCHANGED <<codecVars, data, scanVars, parserVars, rangeVars,
                   page_numbers, outVars, error>>

\* try_parse_alternative_formats is called on the file's bytes
AltFormats ==
    /\ pc = "ready"
    /\ result' = try_parse_alternative_formats(data)
    /\ pc' = "alt_done"
    /\ UNCHANGED <<codecVars, data, scanVars, parserVars, rangeVars,
                   page_numbers, outVars, error>>

(***************************************************************************)
(* The scanners over untrusted bytes: every buffer of up to MaxBuf bytes   *)
(* over ScanBytes, runs of zero bytes long enough to use up the error      *)
(* budget of AFPParser.parse, two junk bytes before one record, a record   *)
(* before a truncated one, and a record between runs of zero bytes.        *)
(***************************************************************************)
ScanBytes == {0, 5, 128}

ZeroRuns == {[i \in 1..n |-> 0] : n \in (max_errors + 1)..(max_errors + 3)}

JunkBytes == {0, 1, 4, 128, 255}
JunkPairs == {<<b0, b1>> : b0 \in JunkBytes, b1 \in JunkBytes}

\* the last record is one that, read one byte early, is itself again
ResyncRecords ==
    {AFPStructuredField(BDT, <<>>), AFPStructuredField(BPG, <<9>>),
     AFPStructuredField(<<0, 0, 5>>, <<0, 5>>),
     AFPStructuredField(<<1, 1, 1>>, [i \in 1..252 |-> 1])}

JunkByte == <<0>>

\* the first bytes of a record of 9 bytes
TruncatedRecord == <<0, 9, 211>>

\* a record, then the first 2 to 5 bytes of a record of 9 bytes
TruncatedTails ==
    {to_bytes(r) \o t :
        r \in ResyncRecords,
        t \in {<<0, 9>>, TruncatedRecord, <<0, 9, 211, 168>>, <<0, 9, 211, 168, 175>>}}

\* zero bytes, one record, zero bytes: malformed lengths on both sides of a
\* record, up to and past the error budget of AFPParser.parse
BudgetBuffers ==
    {[i \in 1..a |-> 0] \o to_bytes(AFPStructuredField(BPG, <<>>)) \o [i \in 1..b |-> 0] :
        a \in {max_errors - 4, max_errors}, b \in 0..6}

ScanBuffers ==
    SeqsUpTo(ScanBytes, MaxBuf)
    \cup ZeroRuns
    \cup {j \o to_bytes(r) : j \in JunkPairs, r \in ResyncRecords}
    \cup TruncatedTails
    \cup BudgetBuffers

InitScan ==
    /\ pc = "ready"
    /\ f = <<>>
    /\ data \in ScanBuffers
    /\ range_str = <<>> /\ total_pages = 0
    /\ Fresh

NextScan ==
    \/ ParseStart \/ ParseAgain \/ ParseIterate \/ ParseAbort
    \/ ParseEndEmpty \/ ParseEnd
    \/ StdStart \/ StdIterate \/ StdEnd
    \/ OffStart \/ OffIterate \/ OffEnd

SpecScan == InitScan /\ [][NextScan]_vars

LoopPcs == {"parse_loop", "std_loop", "off_loop"}
LoopDonePcs == {"parsed", "parse_failed", "std_done", "off_done"}

\* C2: a scan loop over N bytes enters its body at most N times: every body
\* that goes back to the loop test has moved the cursor forward (so the bodies
\* entered so far number at most the bytes the cursor has passed), the cursor
\* never passes the end, and a body is entered only with the cursor before
\* the end.
ScanTerminates ==
    /\ pc \in LoopPcs =>
          /\ iterations <= offset - start_offset
          /\ offset <= Len(data)
    /\ pc \in LoopPcs \cup LoopDonePcs => iterations <= Len(data)

\* a scan that used every iteration it may: one per byte
ScanTerminatesWitness ==
    /\ pc \in LoopDonePcs
    /\ Len(data) >= 5
    /\ iterations = Len(data)

\* two bytes of a malformed length, then exactly one complete valid record
JunkThenRecord(d) ==
    /\ Len(d) >= 7
    /\ InvalidLength(unpack_u16_be(Slice(d, 0, 2)))
    /\ ~InvalidLength(unpack_u16_be(Slice(d, 2, 4)))
    /\ Len(d) = 2 + unpack_u16_be(Slice(d, 2, 4))

\* the record of such a buffer
RecordOf(d) == AFPStructuredField(Slice(d, 4, 7), Slice(d, 7, Len(d)))

\* the second junk byte and the first length byte are a malformed length too
SecondByteMalformed(d) == InvalidLength(unpack_u16_be(Slice(d, 1, 3)))

\* the first call of a scanner from offset 0 has returned or raised
ScannedOnce ==
    \/ pc = "std_done"
    \/ pc = "parsed" /\ parse_calls = 1
    \/ pc = "parse_failed" /\ parse_calls = 0

\* what the scan reports: the decoded fields as (type code, length) and the
\* number of warnings (try_parse_standard_afp) or errors (AFPParser.parse)
ScanReport ==
    IF pc = "std_done"
    THEN [decoded |-> [i \in 1..Len(result.fields) |->
                          <<result.fields[i].type_code, result.fields[i].length>>],
          count |-> result.field_count,
          warnings |-> Len(result.warnings)]
    ELSE [decoded |-> [i \in 1..Len(fields) |->
                          <<hex(fields[i].type_code), fields[i].length>>],
          count |-> Len(fields),
          warnings |-> error_count]

\* C3 as stated: two junk bytes and one record give one field, one warning
ResyncOneWarning ==
    (ScannedOnce /\ JunkThenRecord(data)) =>
        /\ ScanReport.count = 1
        /\ ScanReport.decoded =
              <<<<hex(RecordOf(data).type_code), RecordOf(data).length>>>>
        /\ pc = "std_done" => result.fields[1].offset = 2
        /\ pc # "std_done" => fields = <<RecordOf(data)>>
        /\ ScanReport.warnings = 1

\* C3, amended: when the two bytes at offset 1 are a malformed length as well,
\* the scan skips both junk bytes one at a time and decodes the record: one
\* field, equal to the record, and two warnings, one for each byte skipped.
ResyncByteAtATime ==
    (ScannedOnce /\ JunkThenRecord(data) /\ SecondByteMalformed(data)) =>
        /\ pc # "parse_failed"
        /\ ScanReport.count = 1
        /\ ScanReport.decoded =
              <<<<hex(RecordOf(data).type_code), RecordOf(data).length>>>>
        /\ pc = "std_done" => result.fields[1].offset = 2
        /\ pc # "std_done" => fields = <<RecordOf(data)>>
        /\ ScanReport.warnings = 2

ResyncWitness ==
    /\ pc = "std_done"
    /\ JunkThenRecord(data) /\ SecondByteMalformed(data)
    /\ result.field_count = 1
    /\ Len(result.warnings) = 2
    /\ result.warnings[2].offset = 1

(***************************************************************************)
(* The page-range mini-language (utils.py).  A string is a sequence of     *)
(* characters; the characters of the model are the digits, the comma, the  *)
(* colon and the blank.                                                    *)
(***************************************************************************)
Whitespace == {" "}
Digits == <<"0", "1", "2", "3", "4", "5", "6", "7", "8", "9">>

RECURSIVE lstrip(_)
lstrip(s) ==
    IF s # <<>> /\ Head(s) \in Whitespace THEN lstrip(Tail(s)) ELSE s

RECURSIVE rstrip(_)
rstrip(s) ==
    IF s # <<>> /\ s[Len(s)] \in Whitespace
    THEN rstrip(SubSeq(s, 1, Len(s) - 1)) ELSE s

\* str.strip()
strip(s) == rstrip(lstrip(s))

\* the first position of character c in s, 0 if there is none
Find(s, c) ==
    IF \E i \in 1..Len(s) : s[i] = c
    THEN CHOOSE i \in 1..Len(s) : s[i] = c /\ \A j \in 1..(i - 1) : s[j] # c
    ELSE 0

RECURSIVE split(_, _)
\* str.split(sep)
split(s, sep) ==
    LET i == Find(s, sep)
    IN  IF i = 0 THEN <<s>>
        ELSE <<SubSeq(s, 1, i - 1)>> \o split(SubSeq(s, i + 1, Len(s)), sep)

\* str.split(sep, 1), for a string that holds sep
split1(s, sep) ==
    LET i == Find(s, sep)
    IN  <<SubSeq(s, 1, i - 1), SubSeq(s, i + 1, Len(s))>>

IsDigit(c) == \E i \in 1..Len(Digits) : Digits[i] = c
DigitValue(c) == (CHOOSE i \in 1..Len(Digits) : Digits[i] = c) - 1

RECURSIVE DecimalValue(_)
DecimalValue(s) ==
    IF s = <<>> THEN 0
    ELSE DecimalValue(SubSeq(s, 1, Len(s) - 1)) * 10 + DigitValue(s[Len(s)])

\* int(s) over these characters: blanks around the digits are dropped; no
\* digit, or anything else between the digits, is a ValueError
int(s) ==
    LET t == strip(s)
    IN  IF t # <<>> /\ \A i \in 1..Len(t) : IsDigit(t[i])
        THEN [ok |-> TRUE, value |-> DecimalValue(t)]
        ELSE [ok |-> FALSE, value |-> 0]

Raise(msg) == [ok |-> FALSE, value |-> <<>>, error |-> msg]
Return(v) == [ok |-> TRUE, value |-> v, error |-> ""]

\* list(range(lo, hi))
Range(lo, hi) == [i \in 1..(IF hi > lo THEN hi - lo ELSE 0) |-> lo + i - 1]

\* a plausible slip: the end of an inclusive range is left out
RangeOfPagesExclusive(start, end) == Range(start - 1, end - 1)

\* range(start - 1, end): the 0-indexed pages of start..end
RangeOfPages(start, end) == Range(start - 1, end)

\* the elements of a sequence
Elems(s) == {s[i] : i \in 1..Len(s)}

RECURSIVE SortedSeq(_)
\* sorted(S) of a set of integers
SortedSeq(S) ==
    IF S = {} THEN <<>>
    ELSE LET lo == CHOOSE x \in S : \A y \in S : x <= y
         IN  <<lo>> \o SortedSeq(S \ {lo})

\* a plausible slip: the list is returned as collected
Unsorted(lst) == lst

\* sorted(set(result))
SortedSet(lst) == SortedSeq(Elems(lst))

\* one pass of the for loop of parse_page_range over a non-empty part
ParsePart(part, total) ==
    IF Find(part, ":") # 0
    THEN LET strs == split1(part, ":")
             s == int(strs[1])
             e == int(strs[2])
             start == IF strip(strs[1]) # <<>> THEN s.value ELSE 1
             end == IF strip(strs[2]) # <<>> THEN e.value ELSE total
         IN  IF strip(strs[1]) # <<>> /\ ~s.ok THEN Raise("invalid literal for int()")
             ELSE IF strip(strs[2]) # <<>> /\ ~e.ok THEN Raise("invalid literal for int()")
             ELSE IF start < 1 THEN Raise("Page numbers must be >= 1")
             ELSE IF end > total THEN Raise("End page exceeds total pages")
             ELSE IF start > end THEN Raise("Start page cannot be greater than end page")
             ELSE Return(RangeOfPages(start, end))
    ELSE LET page == int(part)
         IN  IF ~page.ok THEN Raise("invalid literal for int()")
             ELSE IF page.value < 1 THEN Raise("Page numbers must be >= 1")
             ELSE IF page.value > total THEN Raise("Page exceeds total pages")
             ELSE Return(<<page.value - 1>>)

RECURSIVE ParseParts(_, _, _)
\* the for loop of parse_page_range from part i on, with result as collected
ParseParts(parts, total, acc) ==
    IF parts = <<>> THEN Return(acc)
    ELSE IF Head(parts) = <<>> THEN ParseParts(Tail(parts), total, acc)
    ELSE LET r == ParsePart(Head(parts), total)
         IN  IF ~r.ok THEN r
             ELSE ParseParts(Tail(parts), total, acc \o r.value)

\* parse_page_range
parse_page_range(str, total) ==
    IF strip(str) = <<>> THEN Raise("Page range cannot be empty")
    ELSE LET parts == [i \in 1..Len(split(str, ",")) |-> strip(split(str, ",")[i])]
             r == ParseParts(parts, total, <<>>)
         IN  IF ~r.ok THEN r ELSE Return(SortedSet(r.value))

\* a call parse_page_range(str, total)
RangeCall(str, total) ==
    /\ range_str' = str
    /\ total_pages' = total
    /\ LET r == parse_page_range(str, total)
       IN  /\ page_numbers' = r.value
           /\ error' = r.error
           /\ pc' = IF r.ok THEN "range_ok" ELSE "range_failed"

(***************************************************************************)
(* parse_page_range on its own: every string of up to MaxStr characters    *)
(* over RangeChars and the examples of its documentation, against every    *)
(* total of 0..MaxTotalPages pages and the documented total of 8.          *)
(***************************************************************************)
RangeChars == {"0", "1", "2", "3", ",", ":", " "}

\* "1:3, 5, 7:", the example of the documentation, read against 8 pages
DocumentedRange == <<"1", ":", "3", ",", " ", "5", ",", " ", "7", ":">>
RangeTotals == (0..MaxTotalPages) \cup {8}

RangeStrings ==
    SeqsUpTo(RangeChars, MaxStr) \cup {DocumentedRange, <<"9">>, <<"1", "0">>}

InitRange ==
    /\ pc = "range_ready"
    /\ f = <<>>
    /\ data = <<>>
    /\ range_str = <<>> /\ total_pages = 0
    /\ Fresh

ParsePageRange ==
    /\ pc = "range_ready"
    /\ \E str \in RangeStrings, total \in RangeTotals :
          RangeCall(str, total)
    /\ UNCHANGED <<codecVars, data, scanVars, parserVars, result, outVars>>

NextRange == ParsePageRange

SpecRange == InitRange /\ [][NextRange]_vars

(***************************************************************************)
(* The page extractor (operations.py).                                     *)
(***************************************************************************)
\* a plausible slip: the search for the EDT field starts at index 0
FirstEDTFromZero(flds, lo) ==
    IF \E i \in 0..(Len(flds) - 1) : flds[i + 1].type_code = EDT
    THEN CHOOSE i \in 0..(Len(flds) - 1) :
            /\ flds[i + 1].type_code = EDT
            /\ \A j \in 0..(i - 1) : flds[j + 1].type_code # EDT
    ELSE Len(flds)

\* the index of the first EDT field at an index >= lo, Len(flds) if none
FirstEDTFrom(flds, lo) ==
    IF \E i \in lo..(Len(flds) - 1) : flds[i + 1].type_code = EDT
    THEN CHOOSE i \in lo..(Len(flds) - 1) :
            /\ flds[i + 1].type_code = EDT
            /\ \A j \in lo..(i - 1) : flds[j + 1].type_code # EDT
    ELSE Len(flds)

\* end_idx of extract_pages for page_num
PageEnd(flds, pidx, page_num) ==
    IF page_num + 1 < Len(pidx) THEN pidx[page_num + 2]
    ELSE FirstEDTFrom(flds, pidx[page_num + 1] + 1)

\* parser.fields[start_idx:end_idx] for page_num
PageFieldsOf(flds, pidx, page_num) ==
    Slice(flds, pidx[page_num + 1], PageEnd(flds, pidx, page_num))

\* a plausible slip: the resource section is cut one field short
ResourceFieldsShort(flds, rei) == Slice(flds, 0, rei - 1)

\* parser.fields[:parser.resource_end_index]
ResourceFields(flds, rei) == Slice(flds, 0, rei)

\* a plausible slip: the last page is taken for out of range
ValidPagesButLast(pidx, pns) == SelectSeq(pns, LAMBDA p : p < Len(pidx) - 1)

\* a plausible slip: the valid pages are put in order, each once
ValidPagesSorted(pidx, pns) ==
    SortedSet(SelectSeq(pns, LAMBDA p : p < Len(pidx)))

\* [p for p in page_numbers if p < len(parser.page_indices)]
ValidPages(pidx, pns) == SelectSeq(pns, LAMBDA p : p < Len(pidx))

HasEDT(flds) == \E i \in 1..Len(flds) : flds[i].type_code = EDT

\* plausible slips: the trailer is never added; the first EDT is taken
TrailerNever(flds, page_fields) == <<>>

TrailerFirstEDT(flds, page_fields) ==
    IF ~HasEDT(page_fields) /\ HasEDT(flds)
    THEN <<flds[FirstEDTFrom(flds, 0) + 1]>>
    ELSE <<>>

\* the field appended to page_fields, if any: the last EDT of the original
\* file when page_fields holds no EDT
Trailer(flds, page_fields) ==
    IF ~HasEDT(page_fields) /\ HasEDT(flds)
    THEN <<flds[CHOOSE i \in 1..Len(flds) :
                  /\ flds[i].type_code = EDT
                  /\ \A j \in (i + 1)..Len(flds) : flds[j].type_code # EDT]>>
    ELSE <<>>

\* validate_afp_structure; extract_pages only prints a warning when it is false
validate_afp_structure(flds) ==
    /\ flds # <<>>
    /\ \E i \in 1..Len(flds) : flds[i].type_code = BDT
    /\ \E i \in 1..Len(flds) : flds[i].type_code = EDT
    /\ \E i \in 1..Len(flds) : flds[i].type_code = BPG

\* write_afp_file: what the file holds after the writes
write_afp_file(flds) == Concat([i \in 1..Len(flds) |-> to_bytes(flds[i])])

\* extract_pages, up to the call of write_afp_file
extract_pages(flds, rei, pidx, pns) ==
    IF pidx = <<>> THEN Raise("No pages found in the AFP file")
    ELSE LET valid_pages == ValidPages(pidx, pns)
         IN  IF valid_pages = <<>> THEN Raise("None of the requested pages are valid")
             ELSE LET resource_fields == ResourceFields(flds, rei)
                      pages == Concat([i \in 1..Len(valid_pages) |->
                                          PageFieldsOf(flds, pidx, valid_pages[i])])
                      page_fields == pages \o Trailer(flds, pages)
                  IN  Return(resource_fields \o page_fields)

\* a call extract_pages(parser, pns, output_path)
ExtractCall(pns) ==
    LET r == extract_pages(fields, resource_end_index, page_indices, pns)
    IN  /\ output_fields' = r.value
        /\ written' = IF r.ok THEN write_afp_file(r.value) ELSE <<>>
        /\ error' = r.error
        /\ pc' = IF r.ok THEN "extracted" ELSE "extract_failed"

(***************************************************************************)
(* Files.  A generated file is the encoding of a field sequence in which   *)
(* field i carries the payload <<i>>, so that no two fields are equal.     *)
(***************************************************************************)
PTX == <<211, 238, 155>>   \* d3 ee 9b, a field type the tools do not name

MkFields(types) ==
    [i \in 1..Len(types) |-> AFPStructuredField(types[i], <<i>>)]

FileOf(types) == write_afp_file(MkFields(types))

Repeat(x, n) == [i \in 1..n |-> x]

\* BDT BRG <r fields> ERG, then a page BPG <cs[i] fields> EPG for each i,
\* then EDT
WellFormedTypes(r, cs) ==
    <<BDT, BRG>> \o Repeat(PTX, r) \o <<ERG>>
    \o Concat([i \in 1..Len(cs) |-> <<BPG>> \o Repeat(PTX, cs[i]) \o <<EPG>>])
    \o <<EDT>>

WellFormedFiles ==
    {FileOf(WellFormedTypes(r, cs)) :
        r \in 0..1, cs \in SeqsUpTo({0, 1}, MaxPages) \ {<<>>}}
    \cup {FileOf(WellFormedTypes(1, Repeat(1, 5)))}

(***************************************************************************)
(* extract_pages called on a parsed file with any list of page numbers.    *)
(* The files: every sequence of up to MaxFields fields over three types,   *)
(* alone, after a junk byte, and before a truncated record.                *)
(***************************************************************************)
ExtractTypes == {BDT, BPG, EDT}

ExtractFiles ==
    {FileOf(types) : types \in SeqsUpTo(ExtractTypes, MaxFields)}
    \cup {JunkByte \o FileOf(types) : types \in SeqsUpTo(ExtractTypes, MaxFields)}
    \cup {FileOf(types) \o TruncatedRecord : types \in SeqsUpTo(ExtractTypes, MaxFields)}

InitExtract ==
    /\ pc = "ready"
    /\ f = <<>>
    /\ data \in ExtractFiles
    /\ range_str = <<>> /\ total_pages = 0
    /\ Fresh

\* the page numbers asked for: those of the file's pages and one past them
ExtractPages ==
    /\ pc = "parsed"
    /\ \E pns \in SeqsUpTo(0..Len(page_indices), MaxRequest) :
          /\ page_numbers' = pns
          /\ ExtractCall(pns)
    /\ UNCHANGED <<codecVars, data, scanVars, parserVars, result, rangeVars>>

NextExtract ==
    \/ ParseStart \/ ParseAgain \/ ParseIterate \/ ParseEndEmpty \/ ParseEnd
    \/ ExtractPages

SpecExtract == InitExtract /\ [][NextExtract]_vars

(***************************************************************************)
(* execute_extract (cli.py): parse the file, read the page range against   *)
(* the file's number of pages, extract.                                    *)
(***************************************************************************)
PipeChars == {"1", "2", "3", ",", ":"}

PipeFiles ==
    WellFormedFiles \cup {FileOf(types) : types \in SeqsUpTo(ExtractTypes, MaxPipeFields)}

InitPipeline ==
    /\ pc = "ready"
    /\ f = <<>>
    /\ data \in PipeFiles
    /\ range_str = <<>> /\ total_pages = 0
    /\ Fresh

\* total_pages = parser.get_total_pages(); parse_page_range(page_range, total_pages)
PipelineRange ==
    /\ pc = "parsed"
    /\ \E str \in SeqsUpTo(PipeChars, MaxPipeStr) :
          RangeCall(str, Len(page_indices))
    /\ UNCHANGED <<codecVars, data, scanVars, parserVars, result, outVars>>

\* extract_pages(parser, page_numbers, output_path)
PipelineExtract ==
    /\ pc = "range_ok"
    /\ ExtractCall(page_numbers)
    /\ UNCHANGED <<codecVars, data, scanVars, parserVars, result, rangeVars,
                   page_numbers>>

NextPipeline ==
    \/ ParseStart \/ ParseIterate \/ ParseEndEmpty \/ ParseEnd
    \/ PipelineRange \/ PipelineExtract

SpecPipeline == InitPipeline /\ [][NextPipeline]_vars

(***************************************************************************)
(* Properties of the parsed stream and of the extraction.                  *)
(***************************************************************************)
IsBPG(fld) == fld.type_code = BPG
IsEDT(fld) == fld.type_code = EDT

\* the indices (0-based) of the BPG fields of the parsed stream
BPGSet == {i \in 0..(Len(fields) - 1) : IsBPG(fields[i + 1])}

StrictlyIncreasing(seq) == \A i \in 1..(Len(seq) - 1) : seq[i] < seq[i + 1]

\* C4: after a successful parse there is a field, every field is 5..32767
\* bytes long, resource_end_index is the index of the first BPG field (the
\* number of fields if there is none), and page_indices lists the indices of
\* all BPG fields, and only those, in strictly increasing order.
ParsedStreamInvariant ==
    pc = "parsed" =>
        /\ fields # <<>>
        /\ \A i \in 1..Len(fields) : fields[i].length >= 5 /\ fields[i].length <= 32767
        /\ resource_end_index \in 0..Len(fields)
        /\ \A j \in 0..(resource_end_index - 1) : ~IsBPG(fields[j + 1])
        /\ resource_end_index < Len(fields) => IsBPG(fields[resource_end_index + 1])
        /\ StrictlyIncreasing(page_indices)
        /\ Elems(page_indices) = BPGSet

\* a parse that resynchronised and found a resource section and two pages
ParsedStreamWitness ==
    /\ pc = "parsed"
    /\ error_count >= 1
    /\ resource_end_index >= 1
    /\ Len(page_indices) >= 2
    /\ resource_end_index < Len(fields)

\* C6: an extraction leaves the parser's fields, resource_end_index and
\* page_indices as they were, and a successful one writes a field sequence
\* that begins with fields[0 .. resource_end_index - 1], as they are and in
\* their order.
ResourcePreserved ==
    [][pc = "parsed" /\ pc' \in {"extracted", "extract_failed"} =>
          /\ fields' = fields
          /\ resource_end_index' = resource_end_index
          /\ page_indices' = page_indices
          /\ pc' = "extracted" =>
                /\ Len(output_fields') >= resource_end_index
                /\ \A i \in 1..resource_end_index : output_fields'[i] = fields[i]
                /\ Len(written') >= Len(write_afp_file(SubSeq(fields, 1, resource_end_index)))
                /\ SubSeq(written', 1, Len(write_afp_file(SubSeq(fields, 1, resource_end_index))))
                      = write_afp_file(SubSeq(fields, 1, resource_end_index))]_vars

\* an extraction that kept a resource section of two fields or more
ResourcePreservedWitness ==
    /\ pc = "extracted"
    /\ resource_end_index >= 2
    /\ Len(output_fields) > resource_end_index
    /\ output_fields[1] = fields[1] /\ output_fields[2] = fields[2]

\* the pages asked for leave out the last page of the file
ExcludesLastPage ==
    \A i \in 1..Len(page_numbers) : page_numbers[i] # Len(page_indices) - 1

\* the field ranges of the pages asked for hold no EDT field (none of these
\* pages being the last, each range ends where the next page starts)
NoEDTInSelectedPages ==
    \A i \in 1..Len(page_numbers) :
        page_numbers[i] < Len(page_indices) - 1 =>
            \A j \in page_indices[page_numbers[i] + 1]..(page_indices[page_numbers[i] + 2] - 1) :
                ~IsEDT(fields[j + 1])

\* the last EDT field of the parsed stream
LastEDT ==
    fields[CHOOSE i \in 1..Len(fields) :
              IsEDT(fields[i]) /\ \A j \in (i + 1)..Len(fields) : ~IsEDT(fields[j])]

\* C7 as stated, for page numbers given in ascending order: the file has an
\* EDT field and the pages asked for leave out the last page, so the output
\* ends with an EDT field
TrailerLast ==
    (pc = "extracted" /\ HasEDT(fields) /\ ExcludesLastPage
        /\ StrictlyIncreasing(page_numbers)) =>
        IsEDT(output_fields[Len(output_fields)])

\* C7, amended: when the file has an EDT field and the pages asked for leave
\* out the last page, the output holds an EDT field; and when none of the
\* field ranges of these pages holds an EDT field, the output ends with one,
\* the last EDT field of the file.
TrailerIncluded ==
    (pc = "extracted" /\ HasEDT(fields) /\ ExcludesLastPage) =>
        /\ HasEDT(output_fields)
        /\ NoEDTInSelectedPages => output_fields[Len(output_fields)] = LastEDT

\* the trailer is fetched from behind the last page, past another EDT field
TrailerWitness ==
    /\ pc = "extracted"
    /\ HasEDT(fields) /\ ExcludesLastPage /\ NoEDTInSelectedPages
    /\ Len(page_indices) >= 2
    /\ IsEDT(fields[1])
    /\ output_fields[Len(output_fields)] = LastEDT
    /\ LastEDT = fields[Len(fields)]

(***************************************************************************)
(* What a page-range string denotes, token by token.                       *)
(***************************************************************************)
\* the tokens: the parts between commas, trimmed, the empty ones left out
Tokens(str) ==
    LET parts == split(str, ",")
    IN  SelectSeq([i \in 1..Len(parts) |-> strip(parts[i])], LAMBDA t : t # <<>>)

AllDigits(s) == s # <<>> /\ \A i \in 1..Len(s) : IsDigit(s[i])

TokIsRange(tok) == \E i \in 1..Len(tok) : tok[i] = ":"
TokLeft(tok) == strip(split1(tok, ":")[1])
TokRight(tok) == strip(split1(tok, ":")[2])

\* a page number n, or start:end with either side left out
WellFormedToken(tok) ==
    IF TokIsRange(tok)
    THEN /\ TokLeft(tok) = <<>> \/ AllDigits(TokLeft(tok))
         /\ TokRight(tok) = <<>> \/ AllDigits(TokRight(tok))
    ELSE AllDigits(tok)

TokStart(tok) ==
    IF TokIsRange(tok)
    THEN IF TokLeft(tok) = <<>> THEN 1 ELSE DecimalValue(TokLeft(tok))
    ELSE DecimalValue(tok)

TokEnd(tok, total) ==
    IF TokIsRange(tok)
    THEN IF TokRight(tok) = <<>> THEN total ELSE DecimalValue(TokRight(tok))
    ELSE DecimalValue(tok)

\* a page number or range start < 1, a page number or range end > total,
\* or start > end
BadToken(tok, total) ==
    TokStart(tok) < 1 \/ TokEnd(tok, total) > total \/ TokStart(tok) > TokEnd(tok, total)

\* the 0-indexed pages the tokens cover
CoveredPages(str, total) ==
    UNION {{n - 1 : n \in TokStart(tok)..TokEnd(tok, total)} : tok \in Elems(Tokens(str))}

RangeReturned == pc \in {"range_ok", "range_failed"}

\* C9: for a string of one or more well-formed tokens, parse_page_range fails
\* if a token has a page number or start < 1, a page number or end >
\* total_pages, or start > end; otherwise it returns the strictly ascending
\* list of the 0-indexed numbers the tokens cover, all in 0..total_pages-1.
\* "1:3, 5, 7:" of 8 pages gives [0,1,2,4,6,7]; "0" and "9" of 8 pages fail.
PageRangeResult ==
    /\ (/\ RangeReturned
        /\ Tokens(range_str) # <<>>
        /\ \A tok \in Elems(Tokens(range_str)) : WellFormedToken(tok)) =>
          IF \E tok \in Elems(Tokens(range_str)) : BadToken(tok, total_pages)
          THEN pc = "range_failed"
          ELSE /\ pc = "range_ok"
               /\ StrictlyIncreasing(page_numbers)
               /\ Elems(page_numbers) = CoveredPages(range_str, total_pages)
               /\ Elems(page_numbers) \subseteq 0..(total_pages - 1)
    /\ (RangeReturned /\ range_str = DocumentedRange /\ total_pages = 8) =>
          pc = "range_ok" /\ page_numbers = <<0, 1, 2, 4, 6, 7>>
    /\ (RangeReturned /\ range_str \in {<<"0">>, <<"9">>} /\ total_pages = 8) =>
          pc = "range_failed"

\* the documented example has been read
PageRangeWitness ==
    /\ pc = "range_ok"
    /\ range_str = DocumentedRange /\ total_pages = 8
    /\ page_numbers = <<0, 1, 2, 4, 6, 7>>

\* C10 as stated: a string with no page token makes parse_page_range fail,
\* so a call that succeeds never returns the empty list
EmptyRangeRejected ==
    /\ (RangeReturned /\ Tokens(range_str) = <<>>) => pc = "range_failed"
    /\ pc = "range_ok" => page_numbers # <<>>

(***************************************************************************)
(* Properties of execute_extract.  The fields of a generated file carry    *)
(* their position as payload, which names each field of the output.        *)
(***************************************************************************)
\* the position (0-based) in the parsed file of a field of the output
OriginalIndex(fld) == fld.data[1] - 1

\* the output behind the resource section
OutputPages == Slice(output_fields, resource_end_index, Len(output_fields))

\* C5: whatever the order or repetition of the tokens of a page-range string,
\* the pages it selects are written in ascending page order, each once: behind
\* the resource section the output runs through the file's fields in their
\* order (but for a closing EDT field, fetched from wherever it is), and the
\* BPG fields it holds are those of the selected pages, each one time.
PipelineAscending ==
    pc = "extracted" =>
        /\ \A k \in 1..(Len(OutputPages) - 1) :
              \/ OriginalIndex(OutputPages[k]) < OriginalIndex(OutputPages[k + 1])
              \/ k + 1 = Len(OutputPages) /\ IsEDT(OutputPages[k + 1])
        /\ {OriginalIndex(OutputPages[k]) : k \in {j \in 1..Len(OutputPages) : IsBPG(OutputPages[j])}}
              = {page_indices[p + 1] : p \in CoveredPages(range_str, total_pages)}
        /\ Cardinality({k \in 1..Len(OutputPages) : IsBPG(OutputPages[k])})
              = Cardinality(CoveredPages(range_str, total_pages))

\* "3,1" of a 5-page file: page 1 is written before page 3
PipelineAscendingWitness ==
    /\ pc = "extracted"
    /\ range_str = <<"3", ",", "1">>
    /\ Len(page_indices) = 5
    /\ \E i, j \in 1..Len(output_fields) :
          /\ i < j
          /\ output_fields[i] = fields[page_indices[1] + 1]
          /\ output_fields[j] = fields[page_indices[3] + 1]

TypeAt(i) == fields[i + 1].type_code

\* BDT BRG .. ERG, then pages BPG .. EPG, then one EDT, and no other BPG,
\* EPG or EDT field
WellFormedStream ==
    LET n == Len(fields)
        b == resource_end_index
    IN  /\ n >= 6
        /\ TypeAt(0) = BDT /\ TypeAt(1) = BRG
        /\ b >= 3 /\ b < n /\ TypeAt(b - 1) = ERG
        /\ \A i \in 0..(b - 1) : TypeAt(i) \notin {BPG, EPG, EDT}
        /\ TypeAt(n - 1) = EDT /\ TypeAt(n - 2) = EPG
        /\ \A i \in b..(n - 2) :
              /\ TypeAt(i) # EDT
              /\ TypeAt(i) = BPG => (i = b \/ TypeAt(i - 1) = EPG)
              /\ TypeAt(i) = EPG => (i = n - 2 \/ TypeAt(i + 1) = BPG)

RECURSIVE ByteOffset(_)
\* where field i (0-based) of the parsed file starts in the file
ByteOffset(i) == IF i = 0 THEN 0 ELSE ByteOffset(i - 1) + fields[i].length

\* the index of the EPG field that closes the page starting at field i
ClosingEPG(i) ==
    CHOOSE e \in i..(Len(fields) - 1) :
        TypeAt(e) = EPG /\ \A j \in i..(e - 1) : TypeAt(j) # EPG

\* C8: extracting one page p of a well-formed file writes the bytes of the
\* file before its first BPG, the bytes of page p from its BPG to its EPG, and
\* the bytes of the EDT, as they stand in the file.
SinglePageBytes ==
    (/\ pc = "extracted"
     /\ WellFormedStream
     /\ ByteOffset(Len(fields)) = Len(data)
     /\ Len(page_numbers) = 1) =>
        LET start == page_indices[page_numbers[1] + 1]
        IN  written =
                Slice(data, 0, ByteOffset(resource_end_index))
                \o Slice(data, ByteOffset(start), ByteOffset(ClosingEPG(start) + 1))
                \o Slice(data, ByteOffset(Len(fields) - 1), Len(data))

\* page 2 of a two-page file with a field between BPG and EPG
SinglePageWitness ==
    /\ pc = "extracted"
    /\ WellFormedStream
    /\ ByteOffset(Len(fields)) = Len(data)
    /\ range_str = <<"2">>
    /\ page_numbers = <<1>>
    /\ Len(page_indices) = 2
    /\ Len(written) < Len(data)
    /\ ClosingEPG(page_indices[2]) = page_indices[2] + 2

(***************************************************************************)
(* The failure cases of extract_pages.                                     *)
(***************************************************************************)
ExtractReturned == pc \in {"extracted", "extract_failed"}

\* the requested numbers that name a page of the file, in request order
InRangeRequest == SelectSeq(page_numbers, LAMBDA p : p < Len(page_indices))

\* every requested number is past the last page (so is an empty request)
AllOutOfRange ==
    \A i \in 1..Len(page_numbers) : page_numbers[i] >= Len(page_indices)

\* C11: extract_pages fails, and writes nothing, exactly when the file has no
\* page ("No pages found") or every requested page number is >=
\* len(page_indices) ("None of the requested pages are valid"); otherwise it
\* succeeds and writes what it writes for the requested numbers <
\* len(page_indices) alone.
ExtractionFailureCases ==
    ExtractReturned =>
        /\ pc = "extract_failed" <=> (page_indices = <<>> \/ AllOutOfRange)
        /\ pc = "extract_failed" =>
              /\ output_fields = <<>> /\ written = <<>>
              /\ error = IF page_indices = <<>>
                         THEN "No pages found in the AFP file"
                         ELSE "None of the requested pages are valid"
        /\ pc = "extracted" =>
              LET alone == extract_pages(fields, resource_end_index, page_indices,
                                         InRangeRequest)
              IN  /\ alone.ok
                  /\ output_fields = alone.value
                  /\ written = write_afp_file(alone.value)
                  /\ error = ""

\* a request for the last page and a number past it: the number is dropped
ExtractionFailureWitness ==
    /\ pc = "extracted"
    /\ Len(page_indices) >= 2
    /\ page_numbers = <<Len(page_indices), Len(page_indices) - 1>>
    /\ written = write_afp_file(
          extract_pages(fields, resource_end_index, page_indices,
                        <<Len(page_indices) - 1>>).value)

(***************************************************************************)
(* The order of the pages, the field range of a page, the trailer.         *)
(***************************************************************************)
\* the BPG fields of the output, in the order they are written
OutputBPGs == SelectSeq(output_fields, IsBPG)

\* their indices in the parsed stream, when every BPG field is there once
BPGFieldIndex(fld) == CHOOSE i \in 0..(Len(fields) - 1) : fields[i + 1] = fld

\* C15 as stated: whatever list extract_pages is given, the pages of the
\* output are in ascending page order, each once
ExtractSortsItself ==
    (pc = "extracted" /\ parse_calls = 1) =>
        StrictlyIncreasing([k \in 1..Len(OutputBPGs) |-> BPGFieldIndex(OutputBPGs[k])])

\* C15, amended: extract_pages writes the pages in the order of the list it
\* is given, one page range for each entry that is < len(page_indices), a
\* repeated number giving a repeated page; so the pages are in ascending
\* order, each once, when the list is strictly ascending.
ExtractKeepsRequestOrder ==
    pc = "extracted" =>
        /\ OutputBPGs = [k \in 1..Len(InRangeRequest) |->
                            fields[page_indices[InRangeRequest[k] + 1] + 1]]
        /\ (parse_calls = 1 /\ StrictlyIncreasing(page_numbers)) =>
              StrictlyIncreasing([k \in 1..Len(OutputBPGs) |->
                                     BPGFieldIndex(OutputBPGs[k])])

\* pages [1, 0] asked for: page 1 is written before page 0
ExtractKeepsRequestOrderWitness ==
    /\ pc = "extracted"
    /\ parse_calls = 1
    /\ page_numbers = <<1, 0>>
    /\ Len(page_indices) = 2
    /\ OutputBPGs = <<fields[page_indices[2] + 1], fields[page_indices[1] + 1]>>

\* s of C16: where the range of page p starts
RangeStart(p) == page_indices[p + 1]

\* e of C16: where the range of page p ends
RangeEnd(p) ==
    IF p # Len(page_indices) - 1 THEN page_indices[p + 2]
    ELSE IF \E i \in (RangeStart(p) + 1)..(Len(fields) - 1) : IsEDT(fields[i + 1])
    THEN CHOOSE i \in (RangeStart(p) + 1)..(Len(fields) - 1) :
            /\ IsEDT(fields[i + 1])
            /\ \A j \in (RangeStart(p) + 1)..(i - 1) : ~IsEDT(fields[j + 1])
    ELSE Len(fields)

\* fields[s .. e-1] for each valid requested page, one after the other
SelectedRanges ==
    Concat([k \in 1..Len(InRangeRequest) |->
               SubSeq(fields, RangeStart(InRangeRequest[k]) + 1,
                      RangeEnd(InRangeRequest[k]))])

\* C16: behind the resource prologue the output holds, for each valid
\* requested page p, the fields s .. e-1 with s = page_indices[p] and e =
\* page_indices[p+1], or for the last page the index of the first EDT at an
\* index >= s+1, or len(fields); no range is empty, each begins with a BPG, and
\* the output holds a BPG field.
PageFieldRange ==
    pc = "extracted" =>
        /\ \A k \in 1..Len(InRangeRequest) :
              /\ RangeStart(InRangeRequest[k]) < RangeEnd(InRangeRequest[k])
              /\ RangeEnd(InRangeRequest[k]) <= Len(fields)
              /\ IsBPG(fields[RangeStart(InRangeRequest[k]) + 1])
        /\ Len(output_fields) >= resource_end_index + Len(SelectedRanges)
        /\ SubSeq(output_fields, resource_end_index + 1,
                  resource_end_index + Len(SelectedRanges)) = SelectedRanges
        /\ Len(output_fields) <= resource_end_index + Len(SelectedRanges) + 1
        /\ \E i \in 1..Len(output_fields) : IsBPG(output_fields[i])

\* the last page of a file with an EDT field before it and one behind it
PageFieldRangeWitness ==
    /\ pc = "extracted"
    /\ parse_calls = 1
    /\ page_numbers = <<Len(page_indices) - 1>>
    /\ \E i \in 0..(RangeStart(Len(page_indices) - 1) - 1) : IsEDT(fields[i + 1])
    /\ RangeEnd(Len(page_indices) - 1) < Len(fields)
    /\ RangeEnd(Len(page_indices) - 1) = RangeStart(Len(page_indices) - 1) + 2

\* the resource prologue followed by the selected page ranges
Assembled == SubSeq(fields, 1, resource_end_index) \o SelectedRanges

\* C17 as stated: an EDT field is appended if and only if the assembled
\* output holds none and the parsed stream holds one; it is the last EDT of
\* the parsed stream, and nothing else is appended.
TrailerRule ==
    pc = "extracted" =>
        /\ Len(output_fields) \in {Len(Assembled), Len(Assembled) + 1}
        /\ SubSeq(output_fields, 1, Len(Assembled)) = Assembled
        /\ Len(output_fields) = Len(Assembled) + 1
              <=> (~HasEDT(Assembled) /\ HasEDT(fields))
        /\ Len(output_fields) = Len(Assembled) + 1 =>
              output_fields[Len(output_fields)] = LastEDT

(***************************************************************************)
(* How the scans end: truncation, the end of the buffer, the error budget. *)
(***************************************************************************)
\* the length the two bytes at the cursor encode
LengthAtCursor == unpack_u16_be(Slice(data, offset, offset + 2))

\* at least need bytes are left at the cursor, they start with a valid
\* length, and the record of that length runs past the end of the buffer
TruncatedAtCursor(need) ==
    /\ offset + need <= Len(data)
    /\ ~InvalidLength(LengthAtCursor)
    /\ offset + LengthAtCursor > Len(data)

\* C13 as stated: a scan that stopped at a truncated record tells its caller:
\* AFPParser.parse does not return normally, and try_parse_standard_afp
\* returns a warning that names the cursor
TruncationReported ==
    /\ (pc \in {"parsed", "parse_failed"} /\ TruncatedAtCursor(2)) =>
          pc = "parse_failed"
    /\ (pc = "std_done" /\ TruncatedAtCursor(5)) =>
          \E i \in 1..Len(result.warnings) : result.warnings[i].offset = offset

\* C18 as stated: a scan whose cursor has fewer than 5 bytes before it stops
\* at once: the loop is left with the cursor where it is, no field added and
\* no error or warning counted
CleanEndOfBuffer ==
    [][(pc \in LoopPcs /\ offset + 5 > Len(data)) =>
          /\ pc' \notin LoopPcs
          /\ offset' = offset
          /\ fields' = fields
          /\ field_count' = field_count
          /\ error_count' = error_count
          /\ result'.fields = result.fields
          /\ result'.warnings = result.warnings
          /\ result'.errors = result.errors]_vars

RECURSIVE Walk(_, _)
\* what a scan with no error budget meets from off on: the number of
\* positions with a malformed length and the number of complete records
Walk(d, off) ==
    IF off + 2 > Len(d) THEN [malformed |-> 0, records |-> 0]
    ELSE LET L == unpack_u16_be(Slice(d, off, off + 2))
         IN  IF L < 5 \/ L > 32767
             THEN [Walk(d, off + 1) EXCEPT !.malformed = @ + 1]
             ELSE IF off + L > Len(d) THEN [malformed |-> 0, records |-> 0]
             ELSE [Walk(d, off + L) EXCEPT !.records = @ + 1]

RECURSIVE SumLengths(_)
SumLengths(flds) ==
    IF flds = <<>> THEN 0 ELSE Head(flds).length + SumLengths(Tail(flds))

\* the first call of parse on a parser object has returned or raised
ParsedOnce ==
    \/ pc = "parsed" /\ parse_calls = 1
    \/ pc = "parse_failed" /\ parse_calls = 0

\* C20: the first parse of a file fails, with "This does not appear to be a
\* valid AFP file", exactly when the scan meets more than 10 positions with a
\* malformed length, wherever they are in the buffer, or ends with no field;
\* when it succeeds it has counted every malformed position once and moved
\* the cursor one byte for each of them and one field length for each field.
ErrorBudget ==
    ParsedOnce =>
        /\ pc = "parse_failed"
              <=> (Walk(data, 0).malformed > 10 \/ Walk(data, 0).records = 0)
        /\ pc = "parse_failed" => error = NotValidAFP
        /\ pc = "parsed" =>
              /\ error = ""
              /\ Len(fields) = Walk(data, 0).records
              /\ error_count = Walk(data, 0).malformed
              /\ error_count <= 10
              /\ offset = error_count + SumLengths(fields)

\* ten malformed positions, six before the record and four behind it
ErrorBudgetWitness ==
    /\ pc = "parsed" /\ parse_calls = 1
    /\ error_count = 10
    /\ Len(fields) = 1
    /\ data[1] = 0 /\ data[Len(data)] = 0
    /\ Walk(data, 0).malformed = 10
    /\ offset = 10 + fields[1].length

\* eleven malformed positions around a record: the parse fails
ErrorBudgetExceeded ==
    /\ pc = "parse_failed" /\ parse_calls = 0
    /\ Walk(data, 0).records = 1
    /\ Walk(data, 0).malformed = 11

(***************************************************************************)
(* analyze_afp_file and try_parse_alternative_formats on buffers put       *)
(* together from up to MaxPieces pieces (signatures, type codes, length    *)
(* prefixes), and on three longer buffers.                                 *)
(***************************************************************************)
AnalyzePieces == {<<90, 0>>, BDT, BPG, PTX, <<0, 5>>, <<0, 8>>, <<0, 127>>}

\* a truncated length prefix stops the scan from offset 0; behind it a BDT
\* signature and a BPG record
RecoverBuffer == <<0, 127>> \o BDT \o <<0, 5>> \o BPG

\* from the first BDT signature a scan finds one BDT record, from the second
\* the BPG record inside that record's payload
TieBuffer == BDT \o <<0, 10>> \o BDT \o <<0, 5>> \o BPG

\* five BDT signatures before a truncated length prefix, and a sixth before a
\* BPG record
CapBuffer ==
    BDT \o BDT \o BDT \o BDT \o BDT \o <<0, 127>> \o BDT \o <<0, 5>> \o BPG

AnalyzeBuffers ==
    {Concat(ps) : ps \in SeqsUpTo(AnalyzePieces, MaxPieces)}
    \cup {RecoverBuffer, TieBuffer, CapBuffer}

InitAnalyze ==
    /\ pc = "ready"
    /\ f = <<>>
    /\ data \in AnalyzeBuffers
    /\ range_str = <<>> /\ total_pages = 0
    /\ Fresh

NextAnalyze == AnalyzePrimary \/ AnalyzeRecover \/ AnalyzeFinal \/ AltFormats

SpecAnalyze == InitAnalyze /\ [][NextAnalyze]_vars

\* the type codes of the recognized markers, as bytes
KnownMarkers ==
    {<<211, 168, 168>>, <<211, 169, 168>>, <<211, 168, 175>>, <<211, 169, 175>>,
     <<211, 168, 198>>, <<211, 169, 198>>, <<211, 168, 201>>, <<211, 169, 201>>,
     <<211, 168, 167>>, <<211, 169, 167>>, <<211, 168, 251>>, <<211, 169, 251>>,
     <<211, 168, 223>>, <<211, 169, 223>>}

NoneFound == [decoded |-> 0, recognized |-> 0, pages |-> 0]

RECURSIVE CountFrom(_, _)
\* what a scan of the buffer from off finds: the records it decodes, those
\* of them with a recognized type code, those of them that are BPG
CountFrom(d, off) ==
    IF off + 5 > Len(d) THEN NoneFound
    ELSE LET L == d[off + 1] * 256 + d[off + 2]
             type == <<d[off + 3], d[off + 4], d[off + 5]>>
             rest == CountFrom(d, off + L)
         IN  IF L < 5 \/ L > 32767 THEN CountFrom(d, off + 1)
             ELSE IF off + L > Len(d) THEN NoneFound
             ELSE [decoded |-> rest.decoded + 1,
                   recognized |-> rest.recognized + (IF type \in KnownMarkers THEN 1 ELSE 0),
                   pages |-> rest.pages + (IF type = <<211, 168, 175>> THEN 1 ELSE 0)]

\* the offsets where sub occurs in the buffer
Occurrences(sub) ==
    {i \in 0..(Len(data) - Len(sub)) :
        \A k \in 1..Len(sub) : data[i + k] = sub[k]}

\* the lowest five of a set of offsets, ascending
FirstFive(S) ==
    LET sorted == SortedSeq(S)
    IN  SubSeq(sorted, 1, IF Len(sorted) < 5 THEN Len(sorted) ELSE 5)

\* the offsets the recovery tries, in the order it tries them
Candidates ==
    FirstFive(Occurrences(<<90, 0>>))
    \o FirstFive(Occurrences(<<211, 168, 168>>))
    \o FirstFive(Occurrences(<<211, 168, 175>>))

\* the most recognized fields a candidate finds
BestCount ==
    LET counts == {CountFrom(data, Candidates[k]).recognized : k \in 1..Len(Candidates)}
    IN  IF counts = {} THEN 0 ELSE CHOOSE c \in counts : \A o \in counts : o <= c

\* the first candidate that finds that many
BestCandidate ==
    CHOOSE k \in 1..Len(Candidates) :
        /\ CountFrom(data, Candidates[k]).recognized = BestCount
        /\ \A j \in 1..(k - 1) : CountFrom(data, Candidates[j]).recognized < BestCount

PrimaryDecoded == CountFrom(data, 0).decoded
PrimaryRecognized == CountFrom(data, 0).recognized

\* C14 as stated: the recovery runs exactly when the scan from offset 0 found
\* no recognized field, and the error is reported exactly when neither the
\* scan from offset 0 nor the recovery found a recognized field
FormatDetectionAsStated ==
    [][/\ pc = "primary_done" =>
             (pc' = "recovery_done" <=> PrimaryRecognized = 0)
       /\ pc' = "analyzed" =>
             (NotRecognized \in Elems(result'.errors)
                 <=> (PrimaryRecognized = 0 /\ BestCount = 0))]_vars

\* C14, amended: the recovery runs exactly when the scan from offset 0
\* decoded no field at all, recognized or not; the error "Not a recognized
\* AFP format" is reported exactly when that scan decoded no field and no
\* candidate of the recovery found a recognized field; and a file whose scan
\* from offset 0 decoded fields, none of them recognized, gets no error but
\* the warning "Non-standard AFP format detected".
FormatDetection ==
    [][/\ pc = "primary_done" =>
             (pc' = "recovery_done" <=> PrimaryDecoded = 0)
       /\ pc' = "analyzed" =>
             /\ NotRecognized \in Elems(result'.errors)
                   <=> (PrimaryDecoded = 0 /\ BestCount = 0)
             /\ result'.errors \in {<<>>, <<NotRecognized>>}
             /\ NonStandard \in Elems(result'.warnings)
                   <=> (PrimaryDecoded > 0 /\ PrimaryRecognized = 0)
             /\ result'.is_afp
                   <=> (PrimaryRecognized > 0 \/ (PrimaryDecoded = 0 /\ BestCount > 0))]_vars

\* the scan from offset 0 decoded nothing and the recovery found a field
FormatDetectionWitness ==
    /\ pc = "analyzed"
    /\ PrimaryDecoded = 0
    /\ BestCount > 0
    /\ result.is_afp
    /\ result.field_count = BestCount
    /\ result.errors = <<>>

\* a file of fields that are not recognized: a warning, no error
NonStandardReached ==
    /\ pc = "analyzed"
    /\ PrimaryDecoded > 0 /\ PrimaryRecognized = 0
    /\ result.errors = <<>>
    /\ NonStandard \in Elems(result.warnings)

\* C19: try_parse_alternative_formats returns what the scan from the first
\* candidate with the greatest number of recognized fields found, the
\* candidates being, signature by signature, the lowest five offsets of the
\* signature in ascending order; when no candidate finds a recognized field
\* it returns field_count 0 and is_afp false.
RecoveryKeepsBest ==
    pc \in {"alt_done", "recovery_done"} =>
        IF BestCount = 0
        THEN /\ result.field_count = 0
             /\ result.page_count = 0
             /\ ~result.is_afp
        ELSE /\ result.field_count = BestCount
             /\ result.page_count = CountFrom(data, Candidates[BestCandidate]).pages
             /\ result.is_afp

\* two candidates tie, with different page counts: the first is kept
RecoveryKeepsBestWitness ==
    /\ pc = "alt_done"
    /\ BestCount > 0
    /\ \E k \in 1..Len(Candidates) :
          /\ k > BestCandidate
          /\ CountFrom(data, Candidates[k]).recognized = BestCount
          /\ CountFrom(data, Candidates[k]).pages
                # CountFrom(data, Candidates[BestCandidate]).pages
    /\ result.page_count = CountFrom(data, Candidates[BestCandidate]).pages

\* a sixth occurrence of a signature would have found a field: it is not tried
SixthNotTried ==
    /\ pc = "alt_done"
    /\ Cardinality(Occurrences(<<211, 168, 168>>)) = 6
    /\ \E i \in Occurrences(<<211, 168, 168>>) : CountFrom(data, i).recognized > 0
    /\ result.field_count = 0

(***************************************************************************)
(* Repeated calls of parse on one parser object.                           *)
(***************************************************************************)
RECURSIVE RecordsFrom(_, _)
\* the records of the file from off on, as one scan of the file decodes them
RecordsFrom(d, off) ==
    IF off + 2 > Len(d) THEN <<>>
    ELSE LET L == d[off + 1] * 256 + d[off + 2]
         IN  IF L < 5 \/ L > 32767 THEN RecordsFrom(d, off + 1)
             ELSE IF off + L > Len(d) THEN <<>>
             ELSE <<[type_code |-> SubSeq(d, off + 3, off + 5),
                     data |-> SubSeq(d, off + 6, off + L),
                     length |-> L]>>
                  \o RecordsFrom(d, off + L)

\* the indices of the BPG records among them
PagesOfFile ==
    SortedSeq({i \in 0..(Len(RecordsFrom(data, 0)) - 1) :
                  IsBPG(RecordsFrom(data, 0)[i + 1])})

\* C21 as stated: however many times parse has been called on the parser
\* object, fields, page_indices and resource_end_index are those of one scan
\* of the file, the values the first call left, and get_total_pages is the
\* number of pages of the file
ParseRepeatable ==
    pc = "parsed" =>
        /\ fields = RecordsFrom(data, 0)
        /\ page_indices = PagesOfFile
        /\ resource_end_index
              = (IF PagesOfFile = <<>> THEN Len(RecordsFrom(data, 0)) ELSE PagesOfFile[1])
        /\ Len(page_indices) = Len(PagesOfFile)

\* the first call leaves the fields of one scan of the file
FirstParseAsScanned ==
    (pc = "parsed" /\ parse_calls = 1) =>
        /\ fields = RecordsFrom(data, 0)
        /\ page_indices = PagesOfFile

\* a second call has doubled the fields and the pages
ParsedTwiceDoubled ==
    /\ pc = "parsed" /\ parse_calls = 2
    /\ fields = RecordsFrom(data, 0) \o RecordsFrom(data, 0)
    /\ Len(page_indices) = 2 * Len(PagesOfFile)
    /\ Len(PagesOfFile) >= 1

====
